---- MODULE Spec2Model ----
(***************************************************************************)
(* Skywalker.py: a Fusion 360 script that reads an airfoil profile file    *)
(* and sequences CAD kernel calls (sketches, splines, lofts, lines).       *)
(*                                                                         *)
(* Text is modelled as a sequence of one-character strings.  Lengths are   *)
(* fixed-point integers in hundredths of a centimetre (Unit per cm), so    *)
(* that every design constant of the script (the finest is AIL_SLIT/10 =   *)
(* 0.05 cm) is an integer; tangents are integers in 1/TanDen.              *)
(***************************************************************************)
EXTENDS Integers, Sequences, FiniteSets, TLC

VARIABLES fs, arg, ret, design, pc, ui, msgs, loc

vars == <<fs, arg, ret, design, pc, ui, msgs, loc>>

None == "None"

(***************************************************************************)
(* Characters and the Python string operations read_profile uses.          *)
(***************************************************************************)
SP == " "
TAB == "\t"
NL == "\n"
Digits == {"0", "1", "2", "3", "4", "5", "6", "7", "8", "9"}
Whitespace == {SP, TAB, NL}

DigitVal(c) ==
    CASE c = "0" -> 0 [] c = "1" -> 1 [] c = "2" -> 2 [] c = "3" -> 3
      [] c = "4" -> 4 [] c = "5" -> 5 [] c = "6" -> 6 [] c = "7" -> 7
      [] c = "8" -> 8 [] c = "9" -> 9

\* f.readlines(): the text cut after every newline, each line keeping its
\* newline; a last line without newline is kept as it is.
RECURSIVE readlines(_)
readlines(text) ==
    IF text = <<>> THEN <<>>
    ELSE LET nls == {i \in 1..Len(text) : text[i] = NL}
             k == IF nls = {} THEN Len(text)
                  ELSE CHOOSE i \in nls : \A j \in nls : i <= j
         IN <<SubSeq(text, 1, k)>> \o readlines(SubSeq(text, k + 1, Len(text)))

\* str.split(sep) with an explicit one-character separator: cuts at every
\* occurrence, so adjacent separators give empty strings and "" gives [""].
RECURSIVE split(_, _)
split(s, sep) ==
    IF s = <<>> THEN << <<>> >>
    ELSE LET rest == split(Tail(s), sep)
         IN IF Head(s) = sep THEN << <<>> >> \o rest
            ELSE << <<Head(s)>> \o Head(rest) >> \o Tail(rest)

\* str.strip() as float() applies it: leading and trailing whitespace removed.
RECURSIVE lstrip(_)
lstrip(s) == IF s # <<>> /\ Head(s) \in Whitespace THEN lstrip(Tail(s)) ELSE s

RECURSIVE rstrip(_)
rstrip(s) ==
    IF s # <<>> /\ s[Len(s)] \in Whitespace THEN rstrip(SubSeq(s, 1, Len(s) - 1))
    ELSE s

strip(s) == rstrip(lstrip(s))

RECURSIVE DecimalVal(_)
DecimalVal(s) ==
    IF s = <<>> THEN 0
    ELSE 10 * DecimalVal(SubSeq(s, 1, Len(s) - 1)) + DigitVal(s[Len(s)])

\* float(s) on unsigned integer literals: surrounding whitespace is ignored,
\* an empty string or one with anything but digits inside raises ValueError.
float(s) ==
    LET t == strip(s)
    IN IF t # <<>> /\ \A i \in 1..Len(t) : t[i] \in Digits
       THEN [ok |-> TRUE, val |-> DecimalVal(t)]
       ELSE [ok |-> FALSE, val |-> 0]

(***************************************************************************)
(* read_profile(path)                                                      *)
(***************************************************************************)
PROFILE_PATH == "MH45.txt"
OTHER_PATH == "other.txt"
Paths == {PROFILE_PATH, OTHER_PATH}

NoFile == [exists |-> FALSE, text |-> <<>>]
File(text) == [exists |-> TRUE, text |-> text]

NoResult == [status |-> "none", value |-> <<>>]
Raised(exc) == [status |-> exc, value |-> <<>>]
Returned(v) == [status |-> "ok", value |-> v]

\* The for loop over lines[1:]: x, y = line.split(" ") needs exactly two
\* parts, float() each; the first line that fails raises ValueError.
RECURSIVE parse_lines(_, _)
parse_lines(lines, acc) ==
    IF lines = <<>> THEN Returned(acc)
    ELSE LET parts == split(Head(lines), SP)
         IN IF Len(parts) # 2 THEN Raised("ValueError")
            ELSE LET x == float(parts[1])
                     y == float(parts[2])
                 IN IF ~x.ok \/ ~y.ok THEN Raised("ValueError")
                    ELSE parse_lines(Tail(lines), Append(acc, <<x.val, y.val>>))

\* The body of read_profile on the file it opened.
read_file(f) ==
    IF ~f.exists THEN Raised("FileNotFoundError")
    ELSE LET lines == readlines(f.text)
         IN parse_lines(SubSeq(lines, 2, Len(lines)), <<>>)

\* The file the function opens: PROFILE_PATH, whatever its argument is.
opened_path(path) == PROFILE_PATH

read_profile(files, path) == read_file(files[opened_path(path)])

\* The local variables of run before any is assigned.
NoLocals ==
    [app |-> None, design |-> None, rootComp |-> None, exc |-> None,
     failed_at |-> None, profile |-> <<>>,
     sketch_xy |-> 0, sketch_xy_root |-> 0, tip_plane |-> 0, sketch_xy_tip |-> 0,
     root_chord |-> [sk |-> 0, ix |-> -1], root_profile |-> [sk |-> 0, ix |-> -1],
     tip_chord |-> [sk |-> 0, ix |-> -1], tip_profile |-> [sk |-> 0, ix |-> -1],
     sketch_xy_rails |-> 0,
     lead_point1 |-> <<0, 0, 0>>, lead_point2 |-> <<0, 0, 0>>,
     trail_point1 |-> <<0, 0, 0>>, trail_point2 |-> <<0, 0, 0>>,
     leading_edge |-> [sk |-> 0, ix |-> -1], trailing_edge |-> [sk |-> 0, ix |-> -1],
     inner_wing |-> 0,
     off_root_chord |-> [sk |-> 0, ix |-> -1], off_root_profile |-> [sk |-> 0, ix |-> -1],
     off_tip_chord |-> [sk |-> 0, ix |-> -1], off_tip_profile |-> [sk |-> 0, ix |-> -1],
     off_leading_edge |-> [sk |-> 0, ix |-> -1],
     off_trailing_edge |-> [sk |-> 0, ix |-> -1],
     outer_wing |-> 0,
     sketch_xz_ail |-> 0,
     aileron_leading_edge |-> [sk |-> 0, ix |-> -1],
     aileron_side |-> [sk |-> 0, ix |-> -1],
     aileron_space_top |-> [sk |-> 0, ix |-> -1],
     aileron_space_right |-> [sk |-> 0, ix |-> -1],
     aileron_space_bottom |-> [sk |-> 0, ix |-> -1],
     ail_space |-> [sk |-> 0, ix |-> -1],
     sketch_xy_tip_ail |-> 0, plane_root_ail |-> 0, sketch_xy_root_ail |-> 0,
     intersection_curve |-> [sk |-> 0, ix |-> -1],
     line |-> [sk |-> 0, ix |-> -1],
     points |-> <<>>,
     pointA |-> <<0, 0, 0>>, pointB |-> <<0, 0, 0>>, pointC |-> <<0, 0, 0>>,
     line_ail |-> [sk |-> 0, ix |-> -1], line_ail2 |-> [sk |-> 0, ix |-> -1],
     line_ail3 |-> [sk |-> 0, ix |-> -1]]

(***************************************************************************)
(* The profile files considered.                                           *)
(***************************************************************************)
MaxLines == 2

RECURSIVE Concat(_)
Concat(ss) == IF ss = <<>> THEN <<>> ELSE Head(ss) \o Concat(Tail(ss))

\* A data line: lead, x, sep, y, trail (without its newline).
DataLine(lead, x, sep, y, trail) == lead \o x \o sep \o y \o trail

One == <<"1">>
Two == <<"2">>
Twelve == <<"1", "2">>

\* x y with a single space: the lines the script's own file is made of.
SingleSpaceLines ==
    {DataLine(<<>>, x, <<SP>>, y, <<>>) : x \in {One, Two}, y \in {One, Two}}
      \cup {DataLine(<<>>, Twelve, <<SP>>, One, <<>>)}

\* The same two columns with other whitespace around or between them.
WhitespaceLines ==
    {DataLine(<<>>, One, <<TAB>>, Two, <<>>),
     DataLine(<<>>, One, <<SP, SP>>, Two, <<>>),
     DataLine(<<>>, One, <<SP, TAB>>, Two, <<>>),
     DataLine(<<SP>>, One, <<SP>>, Two, <<>>),
     DataLine(<<TAB>>, Two, <<SP>>, One, <<>>),
     DataLine(<<>>, One, <<SP>>, Two, <<SP>>),
     DataLine(<<>>, Two, <<SP>>, One, <<TAB>>)}

\* A blank line, a line of one column, a line of three.
OtherLines == {<<>>, One, DataLine(<<>>, One, <<SP>>, Two, <<SP, One[1]>>)}

Lines == SingleSpaceLines \cup WhitespaceLines \cup OtherLines

Headers == {<<>>, <<"M", "H">>, DataLine(<<>>, Two, <<SP>>, Two, <<>>)}

\* header and data lines joined by newlines, with or without a final one.
Text(header, data, finalNL) ==
    header \o Concat([i \in 1..Len(data) |-> <<NL>> \o data[i]])
      \o (IF finalNL THEN <<NL>> ELSE <<>>)

DataSeqs == UNION {[1..n -> Lines] : n \in 0..MaxLines}

Files ==
    {File(Text(h, d, nl)) : h \in Headers, d \in DataSeqs, nl \in BOOLEAN}
      \cup {File(<<>>), NoFile}

OtherFiles ==
    {NoFile, File(Text(<<"M", "H">>, <<DataLine(<<>>, Two, <<SP>>, One, <<>>)>>, TRUE))}

(***************************************************************************)
(* Design constants (lines 10-39), lengths in hundredths of a centimetre,  *)
(* angles in whole degrees.                                                *)
(***************************************************************************)
Unit == 100
TanDen == Unit * Unit

\* (30/360)*2*pi
SWEEP == 30
\* 20 cm
ROOT_CHORD_LENGTH == 2000
\* 14 cm
TIP_CHORD_LENGTH == 1400
\* 55 cm
SPAN == 5500
\* 3.2 cm
AIL_LENGTH == 320
\* 25 cm
AIL_WIDTH == 2500
\* 0.1 cm
AIL_SPACE == 10
\* 0.5 cm
AIL_SLIT == 50
\* asin((TIP_CHORD_LENGTH + (SPAN/2)*tan(SWEEP) - ROOT_CHORD_LENGTH)/(SPAN/2))
\* = 0.3674 rad = 21.05 degrees
TRAIL_SWEEP == 21
\* 4 cm
SPAR_DIST == 400
\* (45/360)*2*pi
SPAR_ANGLE == 45
\* 0.07 cm
OFFSET == 7

\* math.tan at the angles used, in 1/TanDen (tan(21.05 deg) = 0.38485).
tan(angle) ==
    CASE angle = 0 -> 0
      [] angle = TRAIL_SWEEP -> 3848
      [] angle = SWEEP -> 5774
      [] angle = SPAR_ANGLE -> 10000
      [] angle = 60 -> 17321

\* len * math.tan(angle), for len >= 0.
TimesTan(len, angle) == (len * tan(angle)) \div TanDen

(***************************************************************************)
(* The design held by the CAD kernel.  A sketch keeps its curves in the    *)
(* order they were added and the number of profiles (closed regions) the   *)
(* kernel currently finds in it; whether a new curve closes a region is    *)
(* the kernel's decision.  References are indices into these sequences.    *)
(***************************************************************************)
Point3D(x, y, z) == <<x, y, z>>

\* rootComp.xYConstructionPlane, rootComp.xZConstructionPlane and the
\* construction planes the script adds (design.planes[ix]).
xYConstructionPlane == [kind |-> "xy", ix |-> 0]
xZConstructionPlane == [kind |-> "xz", ix |-> 0]
ConstructionPlane(ix) == [kind |-> "offset", ix |-> ix]

NoRef == [sk |-> 0, ix |-> -1]
Ref(sk, ix) == [sk |-> sk, ix |-> ix]

Sketch(plane) == [name |-> "", plane |-> plane, curves |-> <<>>, profiles |-> 0]
\* A curve: a fitted spline through pts, a line between pts[1] and pts[2], the
\* offset (by off) of the curve through pts, or an intersection curve.
Curve(kind, pts) == [kind |-> kind, pts |-> pts, off |-> 0, construction |-> FALSE]

\* extrudes are the extrude features (rootComp.features.extrudeFeatures), among
\* them the cuts.
EmptyDesign == [sketches |-> <<>>, planes |-> <<>>, lofts |-> <<>>, extrudes |-> <<>>]

\* rootComp.sketches.add(plane); the index of the new sketch is its handle.
sketches_add(d, plane) == [d EXCEPT !.sketches = Append(@, Sketch(plane))]

set_name(d, sk, name) == [d EXCEPT !.sketches[sk].name = name]

\* A curve added to sketch sk.
add_curve(d, sk, c, closes) ==
    [d EXCEPT !.sketches[sk].curves = Append(@, c),
              !.sketches[sk].profiles = @ + (IF closes THEN 1 ELSE 0)]

\* sketch.profiles.item(sketch.profiles.count - 1): an index below 0 names no
\* profile.
last_profile(d, sk) ==
    IF d.sketches[sk].profiles > 0 THEN Ref(sk, d.sketches[sk].profiles - 1)
    ELSE NoRef

\* chord_points with y_chord computed from the x offset.
chord_points_x_for_y(length, profile, x, y) ==
    [i \in 1..Len(profile) |->
        Point3D(profile[i][1] * length + x, profile[i][2] * length + x, 0)]

\* The fit points built by the loop of sketch_chord.
chord_points(length, profile, x, y) ==
    [i \in 1..Len(profile) |->
        Point3D(profile[i][1] * length + x, profile[i][2] * length + y, 0)]

\* sketch_chord: one fitted spline through the chord points, and the most
\* recent profile of the sketch.
sketch_chord(d, sk, length, profile, x, y, closes) ==
    LET d1 == add_curve(d, sk, Curve("spline", chord_points(length, profile, x, y)),
                        closes)
    IN [design |-> d1,
        chord |-> Ref(sk, Len(d1.sketches[sk].curves)),
        sketch_profile |-> last_profile(d1, sk)]

\* draw_line: sketchLines.addByTwoPoints(pnt1, pnt2).
draw_line(d, sk, pnt1, pnt2, closes) ==
    LET d1 == add_curve(d, sk, Curve("line", <<pnt1, pnt2>>), closes)
    IN [design |-> d1, line |-> Ref(sk, Len(d1.sketches[sk].curves))]

\* range_len rounding down: the last element is lost when step does not
\* divide stop - start.
range_len_floor(start, stop, step) ==
    IF stop > start THEN (stop - start) \div step ELSE 0

\* range(start, stop, step) for step > 0: its length and its k-th element
\* (k from 0).
range_len(start, stop, step) ==
    IF stop > start THEN (stop - start + step - 1) \div step ELSE 0

range_at(start, step, k) == start + k * step

\* The two end points of the line one iteration of create_spars draws:
\* the first loop runs from the root (y = 0) to the tip, the second back.
spar_points(x, angle, front) ==
    IF front
    THEN <<Point3D(x, 0, 0),
           Point3D(x + TimesTan(SPAN \div 2, angle), -(SPAN \div 2), 0)>>
    ELSE <<Point3D(x, -(SPAN \div 2), 0),
           Point3D(x + TimesTan(SPAN \div 2, angle), 0, 0)>>

NoArg == [fn |-> "none"]

Idle ==
    /\ design = EmptyDesign
    /\ pc = "idle"
    /\ ui = None
    /\ msgs = <<>>
    /\ loc = NoLocals

InitRead ==
    /\ fs \in {[p \in Paths |-> IF p = PROFILE_PATH THEN f ELSE g] :
                  f \in Files, g \in OtherFiles}
    /\ arg = NoArg
    /\ ret = NoResult
    /\ Idle

\* A call read_profile(path) with either path.
CallReadProfile(path) ==
    /\ arg.fn = "none"
    /\ arg' = [fn |-> "read_profile", path |-> path]
    /\ ret' = read_profile(fs, path)
    /\ UNCHANGED <<fs, design, pc, ui, msgs, loc>>

NextRead == \E path \in Paths : CallReadProfile(path)

SpecRead == InitRead /\ [][NextRead]_vars

(***************************************************************************)
(* sketch_chord called on its own.                                         *)
(***************************************************************************)
MaxProfileLen == 2

ProfilePairs == {<<0, 0>>, <<1, 2>>, <<2, 1>>}
Profiles == UNION {[1..n -> ProfilePairs] : n \in 0..MaxProfileLen}

\* Two sketches, the second already holding a line and a profile.
ChordDesigns ==
    {[EmptyDesign EXCEPT !.sketches = <<Sketch(xYConstructionPlane), s>>] :
        s \in {Sketch(ConstructionPlane(1)),
               [Sketch(ConstructionPlane(1)) EXCEPT
                   !.curves = <<Curve("line", <<Point3D(0, 0, 0), Point3D(1, 1, 0)>>)>>,
                   !.profiles = 1]}}

NoFiles == [p \in Paths |-> NoFile]

InitChord ==
    /\ fs = NoFiles
    /\ arg = NoArg
    /\ ret = NoResult
    /\ design \in ChordDesigns
    /\ pc = "idle"
    /\ ui = None
    /\ msgs = <<>>
    /\ loc = NoLocals

\* What profiles.item(count - 1) gives the caller: the profile, or, for an
\* index that names none, either a null reference or an error of the kernel.
item_raises(ref) == IF ref = NoRef THEN BOOLEAN ELSE {FALSE}

CallSketchChord(sk, length, profile, x, y, closes) ==
    /\ arg.fn = "none"
    /\ arg' = [fn |-> "sketch_chord", sketch |-> sk, length |-> length,
               profile |-> profile, x |-> x, y |-> y]
    /\ LET r == sketch_chord(design, sk, length, profile, x, y, closes)
       IN /\ design' = r.design
          /\ \E raises \in item_raises(r.sketch_profile) :
                ret' = IF raises THEN Raised("RuntimeError")
                       ELSE Returned([chord |-> r.chord,
                                      sketch_profile |-> r.sketch_profile])
    /\ UNCHANGED <<fs, pc, ui, msgs, loc>>

NextChord ==
    \E sk \in 1..2, length \in {ROOT_CHORD_LENGTH, TIP_CHORD_LENGTH},
       profile \in Profiles, x \in {0, TimesTan(SPAN \div 2, SWEEP)},
       y \in {0, OFFSET}, closes \in BOOLEAN :
        CallSketchChord(sk, length, profile, x, y, closes)

SpecChord == InitChord /\ [][NextChord]_vars

(***************************************************************************)
(* create_spars called on its own, one loop iteration per step.            *)
(***************************************************************************)
MaxDist == 4

SparAngles == {0, SWEEP, SPAR_ANGLE}
\* Whole centimetres from 2 cm on.
SparDistances == {k * Unit : k \in 2..MaxDist}

InitSpars ==
    /\ fs = NoFiles
    /\ arg = NoArg
    /\ ret = NoResult
    /\ design = [EmptyDesign EXCEPT !.sketches = <<Sketch(xZConstructionPlane)>>]
    /\ pc = "idle"
    /\ ui = None
    /\ msgs = <<>>
    /\ loc = NoLocals

\* The number of iterations of each of the two loops.
spar_count(distance) ==
    range_len(-2 * ROOT_CHORD_LENGTH, 2 * ROOT_CHORD_LENGTH, distance)

\* Entry: the empty grid collection, the first loop about to start.
SparsCall(angle, distance) ==
    /\ arg.fn = "none"
    /\ arg' = [fn |-> "create_spars", sketch |-> 1, angle |-> angle,
               distance |-> distance, loop |-> "front", k |-> 0]
    /\ ret' = [status |-> "running", value |-> <<>>]
    /\ UNCHANGED <<fs, design, pc, ui, msgs, loc>>

\* One iteration of the loop arg.loop: a line drawn and added to the grid.
spars_iteration(closes) ==
    LET x == range_at(-2 * ROOT_CHORD_LENGTH, arg.distance, arg.k)
        pts == spar_points(x, arg.angle, arg.loop = "front")
        r == draw_line(design, arg.sketch, pts[1], pts[2], closes)
    IN /\ design' = r.design
       /\ ret' = [ret EXCEPT !.value = Append(@, r.line)]
       /\ arg' = [arg EXCEPT !.k = @ + 1]

SparsFrontLine(closes) ==
    /\ arg.fn = "create_spars"
    /\ arg.loop = "front"
    /\ arg.k < spar_count(arg.distance)
    /\ spars_iteration(closes)
    /\ UNCHANGED <<fs, pc, ui, msgs, loc>>

SparsFrontEnd ==
    /\ arg.fn = "create_spars"
    /\ arg.loop = "front"
    /\ arg.k >= spar_count(arg.distance)
    /\ arg' = [arg EXCEPT !.loop = "back", !.k = 0]
    /\ UNCHANGED <<fs, ret, design, pc, ui, msgs, loc>>

SparsBackLine(closes) ==
    /\ arg.fn = "create_spars"
    /\ arg.loop = "back"
    /\ arg.k < spar_count(arg.distance)
    /\ spars_iteration(closes)
    /\ UNCHANGED <<fs, pc, ui, msgs, loc>>

SparsReturn ==
    /\ arg.fn = "create_spars"
    /\ arg.loop = "back"
    /\ arg.k >= spar_count(arg.distance)
    /\ arg' = [arg EXCEPT !.loop = "returned"]
    /\ ret' = [ret EXCEPT !.status = "ok"]
    /\ UNCHANGED <<fs, design, pc, ui, msgs, loc>>

NextSpars ==
    \/ \E angle \in SparAngles, distance \in SparDistances : SparsCall(angle, distance)
    \/ \E closes \in BOOLEAN : SparsFrontLine(closes)
    \/ SparsFrontEnd
    \/ \E closes \in BOOLEAN : SparsBackLine(closes)
    \/ SparsReturn

\* The interpreter keeps executing the function until it returns.
SpecSpars == InitSpars /\ [][NextSpars]_vars /\ WF_vars(NextSpars)

(***************************************************************************)
(* More of the kernel, as run uses it.                                     *)
(***************************************************************************)
\* planes.add(planeInput) after planeInput.setByOffset(xYConstructionPlane, v).
planes_add(d, offset) ==
    [d EXCEPT !.planes = Append(@, [base |-> xYConstructionPlane, offset |-> offset])]

\* worldGeometry of a point of a sketch lying on the xy plane or on a plane
\* offset from it (the only sketches run asks it of).
worldGeometry(d, sk, pt) ==
    LET plane == d.sketches[sk].plane
    IN IF plane.kind = "offset"
       THEN Point3D(pt[1], pt[2], pt[3] + d.planes[plane.ix].offset)
       ELSE pt

\* chord.fitPoints.count and chord.fitPoints.item(i) (i from 0).
fit_count(d, chord) == Len(d.sketches[chord.sk].curves[chord.ix].pts)
fit_point(d, chord, i) == d.sketches[chord.sk].curves[chord.ix].pts[i + 1]

\* create_loft: a NewBody loft through the sections along the rails.
create_loft(d, sections, solid, rails) ==
    [d EXCEPT !.lofts = Append(@, [name |-> "", solid |-> solid,
                                   sections |-> sections, rails |-> rails])]

name_loft(d, loft, name) == [d EXCEPT !.lofts[loft].name = name]

\* A null reference among the sections or rails makes the loft fail.
loft_inputs_valid(sections, rails) ==
    /\ \A i \in 1..Len(sections) : sections[i] # NoRef
    /\ \A i \in 1..Len(rails) : rails[i] # NoRef

\* create_offset_chord: sketch.offset(splines, dir_point, offset) adds the
\* offset curve; item(0) of what it returns and the sketch's last profile.
create_offset_chord(d, sk, spline, offset, closes) ==
    LET src == d.sketches[spline.sk].curves[spline.ix]
        d1 == add_curve(d, sk, [Curve("offset", src.pts) EXCEPT !.off = offset],
                        closes)
    IN [design |-> d1,
        offset_spline |-> Ref(sk, Len(d1.sketches[sk].curves)),
        offset_profile |-> last_profile(d1, sk)]

\* sketch.move(entities, transform) with a translation by vec.
translate(pt, vec) == Point3D(pt[1] + vec[1], pt[2] + vec[2], pt[3] + vec[3])

sketch_move(d, curve, vec) ==
    [d EXCEPT !.sketches[curve.sk].curves[curve.ix].pts =
                  [i \in 1..Len(@) |-> translate(@[i], vec)]]

(***************************************************************************)
(* run(context)                                                            *)
(***************************************************************************)
MaxPoints == 33
LeadFitPoint == 31
TrailFitPoint == 0

DigitChar(n) ==
    CASE n = 0 -> "0" [] n = 1 -> "1" [] n = 2 -> "2" [] n = 3 -> "3"
      [] n = 4 -> "4" [] n = 5 -> "5" [] n = 6 -> "6" [] n = 7 -> "7"
      [] n = 8 -> "8" [] n = 9 -> "9"

\* A well-formed profile file of n points.
GenFile(n, k) ==
    File(Text(<<"M", "H">>,
              [i \in 1..n |-> <<DigitChar((i + k) % 3), SP, DigitChar((i * k) % 2)>>],
              TRUE))

RunFiles ==
    {GenFile(n, k) : n \in {0, 1, LeadFitPoint, LeadFitPoint + 1, MaxPoints},
                     k \in {1, 2}}
      \cup {NoFile, File(Text(<<"M", "H">>, <<DataLine(<<>>, One, <<TAB>>, Two, <<>>)>>, TRUE))}

Init ==
    /\ fs \in {[p \in Paths |-> IF p = PROFILE_PATH THEN f ELSE NoFile] : f \in RunFiles}
    /\ arg = NoArg
    /\ ret = NoResult
    /\ design = EmptyDesign
    /\ pc = "app_get"
    /\ ui = None
    /\ msgs = <<>>
    /\ loc = NoLocals

\* The statement at pc raises exc: control goes to the except clause.
raise(exc) == [loc EXCEPT !.exc = exc, !.failed_at = pc]

\* The statements that call into the application or the kernel, any of which
\* may fail there.  ui.messageBox with a constant text is not among them.
KernelSteps ==
    {"app_get", "get_ui", "get_design", "sketch_xy", "sketch_xy_root", "tip_plane",
     "sketch_xy_tip", "root_chord", "tip_chord", "sketch_xy_rails", "leading_edge",
     "trailing_edge", "inner_loft", "off_root_chord", "off_tip_chord",
     "off_leading_edge", "off_trailing_edge", "outer_loft", "sketch_xz_ail",
     "aileron_leading_edge", "aileron_side", "aileron_space_top",
     "aileron_space_right", "aileron_space_bottom", "ail_space",
     "sketch_xy_tip_ail", "plane_root_ail", "sketch_xy_root_ail", "intersection",
     "inter_line", "inter_points", "line_ail", "line_ail2", "line_ail3"}

KernelError ==
    /\ pc \in KernelSteps
    /\ pc' = "except"
    /\ loc' = raise("RuntimeError")
    /\ UNCHANGED <<fs, arg, ret, design, ui, msgs>>

\* line 319
AppGet ==
    /\ pc = "app_get"
    /\ loc' = [loc EXCEPT !.app = "app"]
    /\ pc' = "get_ui"
    /\ UNCHANGED <<fs, arg, ret, design, ui, msgs>>

\* line 320
GetUi ==
    /\ pc = "get_ui"
    /\ ui' = "ui"
    /\ pc' = "get_design"
    /\ UNCHANGED <<fs, arg, ret, design, msgs, loc>>

\* line 321: the active product is a design, or there is none.
GetDesign ==
    /\ pc = "get_design"
    /\ \E d \in {"design", None} : loc' = [loc EXCEPT !.design = d]
    /\ pc' = "msg_running"
    /\ UNCHANGED <<fs, arg, ret, design, ui, msgs>>

messageBox(text, next) ==
    /\ msgs' = Append(msgs, text)
    /\ pc' = next
    /\ UNCHANGED <<fs, arg, ret, design, ui, loc>>

\* line 323
MsgRunning == pc = "msg_running" /\ messageBox("Running Skywalker script...", "read_profile")

\* line 329
ReadProfile ==
    /\ pc = "read_profile"
    /\ LET r == read_profile(fs, PROFILE_PATH)
       IN IF r.status = "ok"
          THEN /\ loc' = [loc EXCEPT !.profile = r.value]
               /\ pc' = "root_comp"
          ELSE /\ loc' = raise(r.status)
               /\ pc' = "except"
    /\ UNCHANGED <<fs, arg, ret, design, ui, msgs>>

\* line 333
RootComp ==
    /\ pc = "root_comp"
    /\ IF loc.design # None
       THEN /\ loc' = [loc EXCEPT !.rootComp = "rootComp"]
            /\ pc' = "sketch_xy"
       ELSE /\ loc' = raise("AttributeError")
            /\ pc' = "except"
    /\ UNCHANGED <<fs, arg, ret, design, ui, msgs>>

\* sketch = rootComp.sketches.add(plane); sketch.name = name
new_sketch(plane, name) ==
    set_name(sketches_add(design, plane), Len(design.sketches) + 1, name)

\* lines 336-337
SketchXY ==
    /\ pc = "sketch_xy"
    /\ design' = new_sketch(xYConstructionPlane, "Basic Utility Sketch")
    /\ loc' = [loc EXCEPT !.sketch_xy = Len(design'.sketches)]
    /\ pc' = "sketch_xy_root"
    /\ UNCHANGED <<fs, arg, ret, ui, msgs>>

\* lines 340-341
SketchXYRoot ==
    /\ pc = "sketch_xy_root"
    /\ design' = new_sketch(xYConstructionPlane, "Root Chord Sketch")
    /\ loc' = [loc EXCEPT !.sketch_xy_root = Len(design'.sketches)]
    /\ pc' = "tip_plane"
    /\ UNCHANGED <<fs, arg, ret, ui, msgs>>

\* lines 344-348
TipPlane ==
    /\ pc = "tip_plane"
    /\ design' = planes_add(design, SPAN \div 2)
    /\ loc' = [loc EXCEPT !.tip_plane = Len(design'.planes)]
    /\ pc' = "sketch_xy_tip"
    /\ UNCHANGED <<fs, arg, ret, ui, msgs>>

\* lines 349-350
SketchXYTip ==
    /\ pc = "sketch_xy_tip"
    /\ design' = new_sketch(ConstructionPlane(loc.tip_plane), "Tip Chord Sketch")
    /\ loc' = [loc EXCEPT !.sketch_xy_tip = Len(design'.sketches)]
    /\ pc' = "root_chord"
    /\ UNCHANGED <<fs, arg, ret, ui, msgs>>

\* line 353
RootChord(closes) ==
    /\ pc = "root_chord"
    /\ LET r == sketch_chord(design, loc.sketch_xy_root, ROOT_CHORD_LENGTH,
                             loc.profile, 0, 0, closes)
       IN /\ design' = r.design
          /\ \E raises \in item_raises(r.sketch_profile) :
                IF raises
                THEN loc' = raise("RuntimeError") /\ pc' = "except"
                ELSE /\ loc' = [loc EXCEPT !.root_chord = r.chord,
                                           !.root_profile = r.sketch_profile]
                     /\ pc' = "tip_chord"
    /\ UNCHANGED <<fs, arg, ret, ui, msgs>>

\* line 357
TipChord(closes) ==
    /\ pc = "tip_chord"
    /\ LET r == sketch_chord(design, loc.sketch_xy_tip, TIP_CHORD_LENGTH,
                             loc.profile, TimesTan(SPAN \div 2, SWEEP), 0, closes)
       IN /\ design' = r.design
          /\ \E raises \in item_raises(r.sketch_profile) :
                IF raises
                THEN loc' = raise("RuntimeError") /\ pc' = "except"
                ELSE /\ loc' = [loc EXCEPT !.tip_chord = r.chord,
                                           !.tip_profile = r.sketch_profile]
                     /\ pc' = "sketch_xy_rails"
    /\ UNCHANGED <<fs, arg, ret, ui, msgs>>

\* lines 364-365
SketchXYRails ==
    /\ pc = "sketch_xy_rails"
    /\ design' = new_sketch(xYConstructionPlane, "Rails Sketch")
    /\ loc' = [loc EXCEPT !.sketch_xy_rails = Len(design'.sketches)]
    /\ pc' = "leading_edge"
    /\ UNCHANGED <<fs, arg, ret, ui, msgs>>

\* chord.fitPoints.item(i).worldGeometry
fit_world(chord, i) == worldGeometry(design, chord.sk, fit_point(design, chord, i))

\* lines 366-368: fit point 31 of each chord, and the line between them.
LeadingEdge(closes) ==
    /\ pc = "leading_edge"
    /\ IF /\ fit_count(design, loc.root_chord) > LeadFitPoint
          /\ fit_count(design, loc.tip_chord) > LeadFitPoint
       THEN LET p1 == fit_world(loc.root_chord, LeadFitPoint)
                p2 == fit_world(loc.tip_chord, LeadFitPoint)
                r == draw_line(design, loc.sketch_xy_rails, p1, p2, closes)
            IN /\ design' = r.design
               /\ loc' = [loc EXCEPT !.lead_point1 = p1, !.lead_point2 = p2,
                                     !.leading_edge = r.line]
               /\ pc' = "trailing_edge"
       ELSE /\ loc' = raise("AttributeError")
            /\ pc' = "except"
            /\ UNCHANGED design
    /\ UNCHANGED <<fs, arg, ret, ui, msgs>>

\* lines 371-373: fit point 0 of each chord, and the line between them.
TrailingEdge(closes) ==
    /\ pc = "trailing_edge"
    /\ IF /\ fit_count(design, loc.root_chord) > TrailFitPoint
          /\ fit_count(design, loc.tip_chord) > TrailFitPoint
       THEN LET p1 == fit_world(loc.root_chord, TrailFitPoint)
                p2 == fit_world(loc.tip_chord, TrailFitPoint)
                r == draw_line(design, loc.sketch_xy_rails, p1, p2, closes)
            IN /\ design' = r.design
               /\ loc' = [loc EXCEPT !.trail_point1 = p1, !.trail_point2 = p2,
                                     !.trailing_edge = r.line]
               /\ pc' = "msg_loft"
       ELSE /\ loc' = raise("AttributeError")
            /\ pc' = "except"
            /\ UNCHANGED design
    /\ UNCHANGED <<fs, arg, ret, ui, msgs>>

\* line 377
MsgLoft == pc = "msg_loft" /\ messageBox("Creating wing loft...", "inner_loft")

\* InnerLoft with the tip profile added to the sections before the root's.
InnerLoftTipFirst ==
    /\ pc = "inner_loft"
    /\ LET sections == <<loc.tip_profile, loc.root_profile>>
           rails == <<loc.leading_edge, loc.trailing_edge>>
       IN IF loft_inputs_valid(sections, rails)
          THEN /\ design' = name_loft(create_loft(design, sections, TRUE, rails),
                                      Len(design.lofts) + 1, "inner wing")
               /\ loc' = [loc EXCEPT !.inner_wing = Len(design'.lofts)]
               /\ pc' = "off_root_chord"
          ELSE /\ loc' = raise("RuntimeError")
               /\ pc' = "except"
               /\ UNCHANGED design
    /\ UNCHANGED <<fs, arg, ret, ui, msgs>>

\* lines 380-390
InnerLoft ==
    /\ pc = "inner_loft"
    /\ LET sections == <<loc.root_profile, loc.tip_profile>>
           rails == <<loc.leading_edge, loc.trailing_edge>>
       IN IF loft_inputs_valid(sections, rails)
          THEN /\ design' = name_loft(create_loft(design, sections, TRUE, rails),
                                      Len(design.lofts) + 1, "inner wing")
               /\ loc' = [loc EXCEPT !.inner_wing = Len(design'.lofts)]
               /\ pc' = "off_root_chord"
          ELSE /\ loc' = raise("RuntimeError")
               /\ pc' = "except"
               /\ UNCHANGED design
    /\ UNCHANGED <<fs, arg, ret, ui, msgs>>

\* line 399
OffRootChord(closes) ==
    /\ pc = "off_root_chord"
    /\ LET r == create_offset_chord(design, loc.sketch_xy_root, loc.root_chord,
                                    OFFSET, closes)
       IN /\ design' = r.design
          /\ \E raises \in item_raises(r.offset_profile) :
                IF raises
                THEN loc' = raise("RuntimeError") /\ pc' = "except"
                ELSE /\ loc' = [loc EXCEPT !.off_root_chord = r.offset_spline,
                                           !.off_root_profile = r.offset_profile]
                     /\ pc' = "off_tip_chord"
    /\ UNCHANGED <<fs, arg, ret, ui, msgs>>

\* line 400
OffTipChord(closes) ==
    /\ pc = "off_tip_chord"
    /\ LET r == create_offset_chord(design, loc.sketch_xy_tip, loc.tip_chord,
                                    OFFSET, closes)
       IN /\ design' = r.design
          /\ \E raises \in item_raises(r.offset_profile) :
                IF raises
                THEN loc' = raise("RuntimeError") /\ pc' = "except"
                ELSE /\ loc' = [loc EXCEPT !.off_tip_chord = r.offset_spline,
                                           !.off_tip_profile = r.offset_profile]
                     /\ pc' = "off_leading_edge"
    /\ UNCHANGED <<fs, arg, ret, ui, msgs>>

\* lines 403-409: a second leading edge line, moved by (-OFFSET, 0, 0).
OffLeadingEdge(closes) ==
    /\ pc = "off_leading_edge"
    /\ LET r == draw_line(design, loc.sketch_xy_rails, loc.lead_point1,
                          loc.lead_point2, closes)
       IN /\ design' = sketch_move(r.design, r.line, <<-OFFSET, 0, 0>>)
          /\ loc' = [loc EXCEPT !.off_leading_edge = r.line]
    /\ pc' = "off_trailing_edge"
    /\ UNCHANGED <<fs, arg, ret, ui, msgs>>

\* lines 411-417: a second trailing edge line, moved by (OFFSET, 0, 0).
OffTrailingEdge(closes) ==
    /\ pc = "off_trailing_edge"
    /\ LET r == draw_line(design, loc.sketch_xy_rails, loc.trail_point1,
                          loc.trail_point2, closes)
       IN /\ design' = sketch_move(r.design, r.line, <<OFFSET, 0, 0>>)
          /\ loc' = [loc EXCEPT !.off_trailing_edge = r.line]
    /\ pc' = "outer_loft"
    /\ UNCHANGED <<fs, arg, ret, ui, msgs>>

\* lines 420-430
OuterLoft ==
    /\ pc = "outer_loft"
    /\ LET sections == <<loc.off_root_profile, loc.off_tip_profile>>
           rails == <<loc.off_leading_edge, loc.off_trailing_edge>>
       IN IF loft_inputs_valid(sections, rails)
          THEN /\ design' = name_loft(create_loft(design, sections, FALSE, rails),
                                      Len(design.lofts) + 1, "outer wing")
               /\ loc' = [loc EXCEPT !.outer_wing = Len(design'.lofts)]
               /\ pc' = "msg_ailerons"
          ELSE /\ loc' = raise("RuntimeError")
               /\ pc' = "except"
               /\ UNCHANGED design
    /\ UNCHANGED <<fs, arg, ret, ui, msgs>>

\* line 443
MsgAilerons == pc = "msg_ailerons" /\ messageBox("Creating ailerons...", "sketch_xz_ail")

\* lines 448-452: the aileron corner points.
ail_point_lead1 ==
    Point3D(TIP_CHORD_LENGTH + TimesTan(SPAN \div 2, SWEEP) - AIL_LENGTH,
            -(SPAN \div 2), 0)
ail_point_lead2 ==
    Point3D((ROOT_CHORD_LENGTH - AIL_LENGTH)
                + TimesTan(SPAN \div 2 - AIL_WIDTH, TRAIL_SWEEP),
            -(SPAN \div 2 - AIL_WIDTH), 0)
ail_point_slit1 ==
    Point3D((ROOT_CHORD_LENGTH - AIL_LENGTH)
                + TimesTan(SPAN \div 2 - AIL_WIDTH, TRAIL_SWEEP) + AIL_LENGTH * 2,
            -(SPAN \div 2 - AIL_WIDTH), 0)
ail_point_slit2 ==
    Point3D((ROOT_CHORD_LENGTH - AIL_LENGTH)
                + TimesTan(SPAN \div 2 - AIL_WIDTH - AIL_SPACE, TRAIL_SWEEP),
            -(SPAN \div 2 - AIL_WIDTH - AIL_SPACE), 0)
ail_point_slit3 ==
    Point3D((ROOT_CHORD_LENGTH - AIL_LENGTH)
                + TimesTan(SPAN \div 2 - AIL_WIDTH - AIL_SPACE, TRAIL_SWEEP)
                + AIL_LENGTH * 2,
            -(SPAN \div 2 - AIL_WIDTH - AIL_SPACE), 0)

\* lines 454-455
SketchXZAil ==
    /\ pc = "sketch_xz_ail"
    /\ design' = new_sketch(xZConstructionPlane, "Aileron Edges Sketch")
    /\ loc' = [loc EXCEPT !.sketch_xz_ail = Len(design'.sketches)]
    /\ pc' = "aileron_leading_edge"
    /\ UNCHANGED <<fs, arg, ret, ui, msgs>>

\* One of the five lines of the aileron sketch (lines 456-462): drawn at
\* step at between pnt1 and pnt2, kept in the local named at.
aileron_line(at, pnt1, pnt2, closes, next) ==
    /\ pc = at
    /\ LET r == draw_line(design, loc.sketch_xz_ail, pnt1, pnt2, closes)
       IN /\ design' = r.design
          /\ loc' = [loc EXCEPT ![at] = r.line]
    /\ pc' = next
    /\ UNCHANGED <<fs, arg, ret, ui, msgs>>

\* line 456
AileronLeadingEdge(closes) ==
    aileron_line("aileron_leading_edge", ail_point_lead1, ail_point_lead2, closes,
                 "aileron_side")

\* line 457
AileronSide(closes) ==
    aileron_line("aileron_side", ail_point_lead2, ail_point_slit1, closes,
                 "aileron_space_top")

\* line 460
AileronSpaceTop(closes) ==
    aileron_line("aileron_space_top", ail_point_lead2, ail_point_slit2, closes,
                 "aileron_space_right")

\* line 461
AileronSpaceRight(closes) ==
    aileron_line("aileron_space_right", ail_point_slit2, ail_point_slit3, closes,
                 "aileron_space_bottom")

\* AileronSpaceBottom drawn to slit2 instead of slit3: the outline stays open
\* at slit3.
AileronSpaceBottomToSlit2(closes) ==
    aileron_line("aileron_space_bottom", ail_point_slit1, ail_point_slit2, closes,
                 "ail_space")

\* line 462
AileronSpaceBottom(closes) ==
    aileron_line("aileron_space_bottom", ail_point_slit1, ail_point_slit3, closes,
                 "ail_space")

\* line 463; the extrude cut of lines 468-477 is inside a string literal and
\* is not executed.
AilSpace ==
    /\ pc = "ail_space"
    /\ LET r == last_profile(design, loc.sketch_xz_ail)
       IN \E raises \in item_raises(r) :
             IF raises
             THEN loc' = raise("RuntimeError") /\ pc' = "except"
             ELSE loc' = [loc EXCEPT !.ail_space = r] /\ pc' = "sketch_xy_tip_ail"
    /\ UNCHANGED <<fs, arg, ret, design, ui, msgs>>

\* lines 481-482
SketchXYTipAil ==
    /\ pc = "sketch_xy_tip_ail"
    /\ design' = new_sketch(ConstructionPlane(loc.tip_plane), "Aileron Tip Sketch")
    /\ loc' = [loc EXCEPT !.sketch_xy_tip_ail = Len(design'.sketches)]
    /\ pc' = "plane_root_ail"
    /\ UNCHANGED <<fs, arg, ret, ui, msgs>>

\* lines 483-486
PlaneRootAil ==
    /\ pc = "plane_root_ail"
    /\ design' = planes_add(design, SPAN \div 2 - AIL_WIDTH)
    /\ loc' = [loc EXCEPT !.plane_root_ail = Len(design'.planes)]
    /\ pc' = "sketch_xy_root_ail"
    /\ UNCHANGED <<fs, arg, ret, ui, msgs>>

\* lines 487-488
SketchXYRootAil ==
    /\ pc = "sketch_xy_root_ail"
    /\ design' = new_sketch(ConstructionPlane(loc.plane_root_ail), "Aileron Root Sketch")
    /\ loc' = [loc EXCEPT !.sketch_xy_root_ail = Len(design'.sketches)]
    /\ pc' = "intersection"
    /\ UNCHANGED <<fs, arg, ret, ui, msgs>>

\* sketchCurves.item(0), a null reference in a sketch without curves.
first_curve(d, sk) == IF d.sketches[sk].curves # <<>> THEN Ref(sk, 1) ELSE NoRef

\* lines 491-492: the kernel adds the curve where the outer wing body meets
\* the sketch plane, if it meets it.
Intersection(found, closes) ==
    /\ pc = "intersection"
    /\ design' = IF found
                 THEN add_curve(design, loc.sketch_xy_root_ail,
                                Curve("intersection", <<>>), closes)
                 ELSE design
    /\ loc' = [loc EXCEPT !.intersection_curve =
                              first_curve(design', loc.sketch_xy_root_ail)]
    /\ pc' = "inter_line"
    /\ UNCHANGED <<fs, arg, ret, ui, msgs>>

inter1 == Point3D(ail_point_lead2[1], SPAN \div 4, 0)
inter2 == Point3D(ail_point_lead2[1], -(SPAN \div 4), 0)

\* lines 495-498: the construction line across the section.
InterLine(closes) ==
    /\ pc = "inter_line"
    /\ LET r == draw_line(design, loc.sketch_xy_root_ail, inter1, inter2, closes)
       IN /\ design' = [r.design EXCEPT
                           !.sketches[r.line.sk].curves[r.line.ix].construction = TRUE]
          /\ loc' = [loc EXCEPT !.line = r.line]
    /\ pc' = "inter_points"
    /\ UNCHANGED <<fs, arg, ret, ui, msgs>>

\* What intersectWithCurve may return: up to two points of the construction
\* line, in the order the kernel chooses.
IntersectionPoints ==
    {Point3D(inter1[1], y, SPAN \div 2 - AIL_WIDTH) : y \in {0, AIL_SLIT}}
IntersectionResults == UNION {[1..n -> IntersectionPoints] : n \in 0..2}

\* line 502
InterPoints ==
    /\ pc = "inter_points"
    /\ \E pts \in IntersectionResults : loc' = [loc EXCEPT !.points = pts]
    /\ pc' = "pick"
    /\ UNCHANGED <<fs, arg, ret, design, ui, msgs>>

\* pick_points with the comparison turned round: pointA is the item with the
\* smaller y.
pick_points_smaller_first(points) ==
    IF points[1][2] > points[2][2]
    THEN [pointA |-> points[2], pointB |-> points[1]]
    ELSE [pointA |-> points[1], pointB |-> points[2]]

\* lines 508-513: pointA is the item with the larger y.
pick_points(points) ==
    IF points[1][2] < points[2][2]
    THEN [pointA |-> points[2], pointB |-> points[1]]
    ELSE [pointA |-> points[1], pointB |-> points[2]]

\* lines 505-513
Pick ==
    /\ pc = "pick"
    /\ IF Len(loc.points) >= 2
       THEN /\ loc' = [loc EXCEPT !.pointA = pick_points(loc.points).pointA,
                                  !.pointB = pick_points(loc.points).pointB]
            /\ pc' = "translate"
       ELSE /\ loc' = raise("AttributeError")
            /\ pc' = "except"
    /\ UNCHANGED <<fs, arg, ret, design, ui, msgs>>

\* lines 515-518
Translate ==
    /\ pc = "translate"
    /\ loc' = [loc EXCEPT !.pointA = translate(@, <<0, AIL_SLIT \div 10, 0>>),
                          !.pointB = translate(@, <<0, -(AIL_SLIT \div 2), 0>>)]
    /\ pc' = "line_ail"
    /\ UNCHANGED <<fs, arg, ret, design, ui, msgs>>

\* line 520
LineAil(closes) ==
    /\ pc = "line_ail"
    /\ LET r == draw_line(design, loc.sketch_xy, loc.pointA, loc.pointB, closes)
       IN /\ design' = r.design
          /\ loc' = [loc EXCEPT !.line_ail = r.line]
    /\ pc' = "line_ail2"
    /\ UNCHANGED <<fs, arg, ret, ui, msgs>>

\* lines 522-523
LineAil2(closes) ==
    /\ pc = "line_ail2"
    /\ LET c == Point3D(loc.pointB[1] + AIL_SLIT, loc.pointB[2], loc.pointB[3])
           r == draw_line(design, loc.sketch_xy, loc.pointB, c, closes)
       IN /\ design' = r.design
          /\ loc' = [loc EXCEPT !.pointC = c, !.line_ail2 = r.line]
    /\ pc' = "line_ail3"
    /\ UNCHANGED <<fs, arg, ret, ui, msgs>>

\* line 524; the spar grid of lines 528-532 is commented out, so the try
\* block ends here and run returns.
LineAil3(closes) ==
    /\ pc = "line_ail3"
    /\ LET r == draw_line(design, loc.sketch_xy, loc.pointC, loc.pointA, closes)
       IN /\ design' = r.design
          /\ loc' = [loc EXCEPT !.line_ail3 = r.line]
    /\ pc' = "returned"
    /\ UNCHANGED <<fs, arg, ret, ui, msgs>>

\* except_clause without the test of ui: ui.messageBox on None raises inside
\* the handler, and that exception leaves run.
except_clause_unguarded(u) ==
    IF u # None THEN [shown |-> <<"Failed">>, exit |-> "returned"]
    ELSE [shown |-> <<>>, exit |-> "propagated"]

\* lines 563-565: the bare except clause catches whatever was raised, and
\* reports it if ui was assigned.
except_clause(u) ==
    IF u # None THEN [shown |-> <<"Failed">>, exit |-> "returned"]
    ELSE [shown |-> <<>>, exit |-> "returned"]

\* Except with a handler that cleans up: what run had created is deleted.
ExceptUndoing ==
    /\ pc = "except"
    /\ msgs' = msgs \o except_clause(ui).shown
    /\ pc' = except_clause(ui).exit
    /\ design' = EmptyDesign
    /\ UNCHANGED <<fs, arg, ret, ui, loc>>

Except ==
    /\ pc = "except"
    /\ msgs' = msgs \o except_clause(ui).shown
    /\ pc' = except_clause(ui).exit
    /\ UNCHANGED <<fs, arg, ret, design, ui, loc>>

Next ==
    \/ KernelError
    \/ AppGet
    \/ GetUi
    \/ GetDesign
    \/ MsgRunning
    \/ ReadProfile
    \/ RootComp
    \/ SketchXY
    \/ SketchXYRoot
    \/ TipPlane
    \/ SketchXYTip
    \/ \E closes \in BOOLEAN : RootChord(closes)
    \/ \E closes \in BOOLEAN : TipChord(closes)
    \/ SketchXYRails
    \/ \E closes \in BOOLEAN : LeadingEdge(closes)
    \/ \E closes \in BOOLEAN : TrailingEdge(closes)
    \/ MsgLoft
    \/ InnerLoft
    \/ \E closes \in BOOLEAN : OffRootChord(closes)
    \/ \E closes \in BOOLEAN : OffTipChord(closes)
    \/ \E closes \in BOOLEAN : OffLeadingEdge(closes)
    \/ \E closes \in BOOLEAN : OffTrailingEdge(closes)
    \/ OuterLoft
    \/ MsgAilerons
    \/ SketchXZAil
    \/ \E closes \in BOOLEAN : AileronLeadingEdge(closes)
    \/ \E closes \in BOOLEAN : AileronSide(closes)
    \/ \E closes \in BOOLEAN : AileronSpaceTop(closes)
    \/ \E closes \in BOOLEAN : AileronSpaceRight(closes)
    \/ \E closes \in BOOLEAN : AileronSpaceBottom(closes)
    \/ AilSpace
    \/ SketchXYTipAil
    \/ PlaneRootAil
    \/ SketchXYRootAil
    \/ \E found \in BOOLEAN, closes \in BOOLEAN : Intersection(found, closes)
    \/ \E closes \in BOOLEAN : InterLine(closes)
    \/ InterPoints
    \/ Pick
    \/ Translate
    \/ \E closes \in BOOLEAN : LineAil(closes)
    \/ \E closes \in BOOLEAN : LineAil2(closes)
    \/ \E closes \in BOOLEAN : LineAil3(closes)
    \/ Except

Spec == Init /\ [][Next]_vars

(***************************************************************************)
(* What a data line holds, read as whitespace-delimited columns.           *)
(***************************************************************************)
\* The maximal runs of non-whitespace characters of a line.
RECURSIVE Columns(_)
Columns(s) ==
    LET t == lstrip(s)
    IN IF t = <<>> THEN <<>>
       ELSE LET ends == {i \in 1..Len(t) : t[i] \in Whitespace}
                k == IF ends = {} THEN Len(t) + 1
                     ELSE CHOOSE i \in ends : \A j \in ends : i <= j
            IN <<SubSeq(t, 1, k - 1)>> \o Columns(SubSeq(t, k, Len(t)))

IsNumber(s) == s # <<>> /\ \A i \in 1..Len(s) : s[i] \in Digits

HoldsTwoNumbers(line) ==
    LET c == Columns(line)
    IN Len(c) = 2 /\ IsNumber(c[1]) /\ IsNumber(c[2])

PairOf(line) ==
    LET c == Columns(line) IN <<DecimalVal(c[1]), DecimalVal(c[2])>>

IsBlank(line) == Columns(line) = <<>>

\* The lines after the header line of the file at path.
DataLinesAt(path) ==
    LET lines == readlines(fs[path].text) IN SubSeq(lines, 2, Len(lines))

ReadCalled == arg.fn = "read_profile"

\* C1: read_profile on a header line followed by n data lines of two numbers
\* each returns exactly the n pairs (x, y) of those lines in file order
\* (stated for the call the script itself makes, with PROFILE_PATH).
C1_PairsOfDataLines ==
    (/\ ReadCalled
     /\ arg.path = PROFILE_PATH
     /\ fs[PROFILE_PATH].exists
     /\ readlines(fs[PROFILE_PATH].text) # <<>>
     /\ \A i \in 1..Len(DataLinesAt(PROFILE_PATH)) :
           HoldsTwoNumbers(DataLinesAt(PROFILE_PATH)[i]))
    => ret = Returned([i \in 1..Len(DataLinesAt(PROFILE_PATH)) |->
                          PairOf(DataLinesAt(PROFILE_PATH)[i])])

\* C2: no data line whose two columns are delimited by spaces or tabs (with
\* or without leading or trailing whitespace), and no trailing blank line,
\* makes read_profile raise: such a file always yields a returned list.
C2_AnyWhitespaceAccepted ==
    (/\ ReadCalled
     /\ arg.path = PROFILE_PATH
     /\ fs[PROFILE_PATH].exists
     /\ LET d == DataLinesAt(PROFILE_PATH)
        IN \A i \in 1..Len(d) :
              \/ HoldsTwoNumbers(d[i])
              \/ (i = Len(d) /\ IsBlank(d[i])))
    => ret.status = "ok"

\* C3: read_profile(path) returns the points of the file at its path
\* argument.
C3_ReadsFileAtPath ==
    (ReadCalled /\ \A p \in Paths : fs[p].exists) => ret = read_file(fs[arg.path])


(***************************************************************************)
(* sketch_chord                                                            *)
(***************************************************************************)
\* C6: a call sketch_chord(sketch, length, profile, x, y) adds exactly one
\* fitted spline to that sketch and nothing else to the design; its fit
\* points are, in profile order and as many as the profile has pairs,
\* (p_x*length + x, p_y*length + y, 0); the chord returned is that spline and
\* the profile returned is the sketch's last one (index count - 1) after the
\* spline was added.
C6_ChordSpline ==
    [][(arg.fn = "none" /\ arg'.fn = "sketch_chord") =>
        LET sk == arg'.sketch
            before == design.sketches[sk]
            after == design'.sketches[sk]
            fit == after.curves[Len(after.curves)].pts
        IN /\ Len(after.curves) = Len(before.curves) + 1
           /\ SubSeq(after.curves, 1, Len(before.curves)) = before.curves
           /\ after.curves[Len(after.curves)].kind = "spline"
           /\ Len(fit) = Len(arg'.profile)
           /\ \A i \in 1..Len(arg'.profile) :
                 fit[i] = <<arg'.profile[i][1] * arg'.length + arg'.x,
                            arg'.profile[i][2] * arg'.length + arg'.y, 0>>
           /\ Len(design'.sketches) = Len(design.sketches)
           /\ \A o \in 1..Len(design.sketches) :
                 o # sk => design'.sketches[o] = design.sketches[o]
           /\ design'.planes = design.planes /\ design'.lofts = design.lofts
           /\ ret'.status = "ok" =>
                 /\ ret'.value.chord = [sk |-> sk, ix |-> Len(after.curves)]
                 /\ after.profiles > 0 =>
                       ret'.value.sketch_profile =
                           [sk |-> sk, ix |-> after.profiles - 1]
    ]_vars

\* A chord of two points, shifted in x, drawn on the sketch that already held
\* a line, with a profile returned.
C6_Witness ==
    /\ arg.fn = "sketch_chord"
    /\ ret.status = "ok"
    /\ Len(arg.profile) = 2
    /\ arg.profile[1] # arg.profile[2]
    /\ arg.x # 0
    /\ arg.y # 0
    /\ Len(design.sketches[arg.sketch].curves) = 2
    /\ ret.value.sketch_profile = [sk |-> arg.sketch, ix |-> 1]

(***************************************************************************)
(* create_spars                                                            *)
(***************************************************************************)
CeilDiv(a, b) == CHOOSE n \in 0..a : n * b >= a /\ (n - 1) * b < a

SparLine(i) ==
    design.sketches[ret.value[i].sk].curves[ret.value[i].ix]

\* The grid of a returned call: 2*ceil(4*ROOT_CHORD_LENGTH/distance) lines,
\* first the lines from (x, 0, 0) to (x + (SPAN/2)*tan(angle), -SPAN/2, 0)
\* for x = -2*ROOT_CHORD_LENGTH, +distance, ... below 2*ROOT_CHORD_LENGTH,
\* then for the same x the lines from (x, -SPAN/2, 0) to
\* (x + (SPAN/2)*tan(angle), 0, 0).
SparGridAsClaimed ==
    (arg.fn = "create_spars" /\ ret.status = "ok") =>
        LET n == CeilDiv(4 * ROOT_CHORD_LENGTH, arg.distance)
            reach == ((SPAN \div 2) * tan(arg.angle)) \div TanDen
            xs == [i \in 1..n |-> -2 * ROOT_CHORD_LENGTH + (i - 1) * arg.distance]
        IN /\ Len(ret.value) = 2 * n
           /\ Len(design.sketches[arg.sketch].curves) = 2 * n
           /\ \A i \in 1..n :
                 /\ xs[i] < 2 * ROOT_CHORD_LENGTH
                 /\ SparLine(i).kind = "line"
                 /\ SparLine(i).pts =
                       <<(<<xs[i], 0, 0>>), (<<xs[i] + reach, -(SPAN \div 2), 0>>)>>
                 /\ SparLine(n + i).kind = "line"
                 /\ SparLine(n + i).pts =
                       <<(<<xs[i], -(SPAN \div 2), 0>>), (<<xs[i] + reach, 0, 0>>)>>
           /\ \A i, j \in 1..(2 * n) : i # j => ret.value[i] # ret.value[j]

\* C10: create_spars with a positive whole distance terminates, and the grid
\* it returns is the one described by SparGridAsClaimed.
C10_SparsTerminateWithGrid ==
    /\ []SparGridAsClaimed
    /\ (arg.fn = "create_spars") ~> (ret.status = "ok")

\* A returned grid whose distance does not divide 4*ROOT_CHORD_LENGTH, at the
\* script's own spar angle.
C10_Witness ==
    /\ arg.fn = "create_spars"
    /\ ret.status = "ok"
    /\ (4 * ROOT_CHORD_LENGTH) % arg.distance # 0
    /\ arg.angle = SPAR_ANGLE
    /\ Len(ret.value) = 54

(***************************************************************************)
(* run                                                                     *)
(***************************************************************************)
Succeeded == pc = "returned" /\ loc.failed_at = None
Failed == loc.failed_at # None

\* C4: when run has returned without an exception the design contains the
\* spar grid: the lines create_spars draws for SPAR_ANGLE and SPAR_DIST.
C4_SparGridCreated ==
    Succeeded =>
        \E sk \in 1..Len(design.sketches) :
            \A k \in 0..(spar_count(SPAR_DIST) - 1) :
                \A front \in BOOLEAN :
                    \E i \in 1..Len(design.sketches[sk].curves) :
                        /\ design.sketches[sk].curves[i].kind = "line"
                        /\ design.sketches[sk].curves[i].pts =
                              spar_points(range_at(-2 * ROOT_CHORD_LENGTH, SPAR_DIST, k),
                                          SPAR_ANGLE, front)

\* C5: when run has returned without an exception a cut operation on the
\* outer wing body has been performed.
C5_AileronCut ==
    Succeeded =>
        \E i \in 1..Len(design.extrudes) :
            /\ design.extrudes[i].operation = "CutFeatureOperation"
            /\ design.extrudes[i].participantBodies = <<loc.outer_wing>>

RunningMsg == "Running Skywalker script..."
LoftMsg == "Creating wing loft..."
AileronsMsg == "Creating ailerons..."

Shown(text) == \E i \in 1..Len(msgs) : msgs[i] = text

IsSplineOf(c, n) == c.kind = "spline" /\ Len(c.pts) = n

\* C7: a successful run creates exactly two lofts: first 'inner wing', solid,
\* through (root profile, tip profile) along (leading edge, trailing edge),
\* then 'outer wing', not solid, through the offset profiles along the offset
\* edges.  Both chords and both inner rails exist when the first loft does;
\* the 'Running' message precedes any design change, 'Creating wing loft...'
\* the inner loft, and 'Creating ailerons...' follows the outer loft.
C7_TwoLoftsInOrder ==
    LET root == loc.sketch_xy_root
        tip == loc.sketch_xy_tip
        rails == loc.sketch_xy_rails
        n == Len(loc.profile)
    IN /\ design # EmptyDesign => (msgs # <<>> /\ msgs[1] = RunningMsg)
       /\ Len(design.lofts) <= 2
       /\ Succeeded => Len(design.lofts) = 2
       /\ Shown(AileronsMsg) =>
             (Len(design.lofts) = 2 /\ msgs = <<RunningMsg, LoftMsg, AileronsMsg>>
                  \o (IF Failed /\ pc = "returned" THEN <<"Failed">> ELSE <<>>))
       /\ Len(design.lofts) >= 1 =>
             /\ SubSeq(msgs, 1, 2) = <<RunningMsg, LoftMsg>>
             /\ IsSplineOf(design.sketches[root].curves[1], n)
             /\ IsSplineOf(design.sketches[tip].curves[1], n)
             /\ design.sketches[root].plane.kind = "xy"
             /\ design.sketches[tip].plane.kind = "offset"
             /\ design.planes[design.sketches[tip].plane.ix].offset = SPAN \div 2
             /\ design.lofts[1].name = "inner wing"
             /\ design.lofts[1].solid = TRUE
             /\ design.lofts[1].sections = <<[sk |-> root, ix |-> 0], [sk |-> tip, ix |-> 0]>>
             /\ design.lofts[1].rails = <<[sk |-> rails, ix |-> 1], [sk |-> rails, ix |-> 2]>>
             /\ design.sketches[rails].curves[1].kind = "line"
             /\ design.sketches[rails].curves[1].pts =
                   <<design.sketches[root].curves[1].pts[32],
                     <<design.sketches[tip].curves[1].pts[32][1],
                       design.sketches[tip].curves[1].pts[32][2], SPAN \div 2>> >>
             /\ design.sketches[rails].curves[2].kind = "line"
             /\ design.sketches[rails].curves[2].pts =
                   <<design.sketches[root].curves[1].pts[1],
                     <<design.sketches[tip].curves[1].pts[1][1],
                       design.sketches[tip].curves[1].pts[1][2], SPAN \div 2>> >>
       /\ Len(design.lofts) = 2 =>
             /\ design.lofts[2].name = "outer wing"
             /\ design.lofts[2].solid = FALSE
             /\ design.lofts[2].sections =
                   <<[sk |-> root, ix |-> design.sketches[root].profiles - 1],
                     [sk |-> tip, ix |-> design.sketches[tip].profiles - 1]>>
             /\ design.sketches[root].curves[2].kind = "offset"
             /\ design.sketches[tip].curves[2].kind = "offset"
             /\ design.lofts[2].rails = <<[sk |-> rails, ix |-> 3], [sk |-> rails, ix |-> 4]>>
             /\ design.sketches[rails].curves[3].pts =
                   [i \in 1..2 |->
                       <<design.sketches[rails].curves[1].pts[i][1] - OFFSET,
                         design.sketches[rails].curves[1].pts[i][2],
                         design.sketches[rails].curves[1].pts[i][3]>>]
             /\ design.sketches[rails].curves[4].pts =
                   [i \in 1..2 |->
                       <<design.sketches[rails].curves[2].pts[i][1] + OFFSET,
                         design.sketches[rails].curves[2].pts[i][2],
                         design.sketches[rails].curves[2].pts[i][3]>>]

\* A successful run on a profile of more than 32 points.
C7_Witness ==
    /\ Succeeded
    /\ Len(loc.profile) > 32
    /\ Len(design.lofts) = 2
    /\ msgs = <<RunningMsg, LoftMsg, AileronsMsg>>

FailedBoxes == Cardinality({i \in 1..Len(msgs) : msgs[i] = "Failed"})

\* C8: run never propagates an exception: whatever step raised, run returns;
\* the 'Failed' box is shown exactly once if ui had been obtained before the
\* failure (the failure came after line 320), and if it had not, nothing at
\* all is reported.
C8_ExceptionsCaught ==
    /\ pc # "propagated"
    /\ FailedBoxes <= 1
    /\ pc = "except" => Failed
    /\ pc = "returned" =>
          /\ FailedBoxes = 1 <=> (Failed /\ ui # None)
          /\ ui # None <=> loc.failed_at \notin {"app_get", "get_ui"}
          /\ (Failed /\ ui = None) => msgs = <<>>

\* A failure before ui was obtained, swallowed without a report.
C8_Witness ==
    /\ pc = "returned"
    /\ loc.failed_at = "get_ui"
    /\ ui = None
    /\ msgs = <<>>

IsPrefix(s, t) == Len(s) <= Len(t) /\ SubSeq(t, 1, Len(s)) = s

\* Everything in design d is still in design e: the sketches with their
\* planes, names and curves, the planes, the lofts.
Keeps(d, e) ==
    /\ Len(d.sketches) <= Len(e.sketches)
    /\ \A sk \in 1..Len(d.sketches) :
          /\ e.sketches[sk].plane = d.sketches[sk].plane
          /\ e.sketches[sk].name = d.sketches[sk].name
          /\ IsPrefix(d.sketches[sk].curves, e.sketches[sk].curves)
    /\ IsPrefix(d.planes, e.planes)
    /\ IsPrefix(d.lofts, e.lofts)

\* A profile of fewer than 32 points: run fails at the leading-edge rail,
\* with both chords sketched and no loft made.
ShortProfileStopsAtRail ==
    (pc = "returned" /\ Len(loc.profile) < 32 /\ loc.failed_at = "leading_edge") =>
        /\ design.sketches[loc.sketch_xy_root].curves[1].kind = "spline"
        /\ design.sketches[loc.sketch_xy_tip].curves[1].kind = "spline"
        /\ design.sketches[loc.sketch_xy_rails].curves = <<>>
        /\ design.lofts = <<>>
        /\ ~Shown(LoftMsg)

\* C9: once a step of run has failed no later step executes (the design is
\* left as it is and run returns), and nothing created is ever undone; a
\* profile of fewer than 32 points makes run stop at the leading-edge rail,
\* after both chords and before any loft.
C9_FailureKeepsDesign ==
    /\ [][/\ Keeps(design, design')
          /\ Failed => (design' = design /\ pc = "except" /\ pc' = "returned"
                           /\ loc' = loc)]_vars
    /\ [](Len(loc.profile) < 32 => design.lofts = <<>>)
    /\ []ShortProfileStopsAtRail

\* The run on a profile of 31 points, returned after its failure at the rail
\* with the three sketches before it still in the design.
C9_Witness ==
    /\ pc = "returned"
    /\ Len(loc.profile) = 31
    /\ loc.failed_at = "leading_edge"
    /\ Len(design.sketches) = 4
    /\ Len(design.sketches[loc.sketch_xy_root].curves[1].pts) = 31
    /\ msgs = <<RunningMsg, "Failed">>

(***************************************************************************)
(* The aileron sketch and the slit triangle of run.                        *)
(***************************************************************************)
\* The curve a reference names.
CurveAt(r) == design.sketches[r.sk].curves[r.ix]

IsLine(r) == r # NoRef /\ CurveAt(r).kind = "line" /\ Len(CurveAt(r).pts) = 2

\* The four lines of the spacing outline, in the order run draws them.
OutlineRefs ==
    <<loc.aileron_side, loc.aileron_space_top, loc.aileron_space_right,
      loc.aileron_space_bottom>>

OutlineDrawn == \A i \in 1..4 : OutlineRefs[i] # NoRef

\* How many of the eight line ends of the outline lie at p.
OutlineVisits(p) ==
    Cardinality({e \in (1..4) \X (1..2) : CurveAt(OutlineRefs[e[1]]).pts[e[2]] = p})

OutlineCorners ==
    {CurveAt(OutlineRefs[e[1]]).pts[e[2]] : e \in (1..4) \X (1..2)}

Higher(pts) == CHOOSE p \in {pts[1], pts[2]} : \A q \in {pts[1], pts[2]} : p[2] >= q[2]
Lower(pts) == IF pts[1] = pts[2] THEN pts[1]
              ELSE CHOOSE p \in {pts[1], pts[2]} : p # Higher(pts)

SlitRefs == <<loc.line_ail, loc.line_ail2, loc.line_ail3>>

\* How many of the six line ends of the slit triangle lie at p.
SlitVisits(p) ==
    Cardinality({e \in (1..3) \X (1..2) : CurveAt(SlitRefs[e[1]]).pts[e[2]] = p})

\* C12: when the kernel has returned two intersection points, in either
\* order, run takes the one with the larger (or equal) y as pointA and the
\* other as pointB; it then moves pointA by +AIL_SLIT/10 and pointB by
\* -AIL_SLIT/2 in y and nothing else, sets pointC to the moved pointB shifted
\* by +AIL_SLIT in x, and the lines it draws afterwards in the utility sketch
\* are A-B, B-C and C-A on these points: a closed triangle, every corner the
\* end of exactly two lines, with pointA.y > pointB.y = pointC.y.
C12_SlitTriangle ==
    /\ [](pc = "translate" =>
            /\ Len(loc.points) = 2
            /\ loc.pointA = Higher(loc.points)
            /\ loc.pointB = Lower(loc.points)
            /\ loc.pointA[2] >= loc.pointB[2])
    /\ [][pc = "translate" =>
            /\ loc'.pointA = Point3D(loc.pointA[1], loc.pointA[2] + AIL_SLIT \div 10,
                                     loc.pointA[3])
            /\ loc'.pointB = Point3D(loc.pointB[1], loc.pointB[2] - AIL_SLIT \div 2,
                                     loc.pointB[3])
            /\ pc' = "line_ail"]_vars
    /\ [][(pc \in {"line_ail", "line_ail2", "line_ail3"} /\ pc' # "except") =>
            (loc'.pointA = loc.pointA /\ loc'.pointB = loc.pointB)]_vars
    /\ [](pc \in {"line_ail", "line_ail2", "line_ail3"} =>
            /\ loc.pointA = Point3D(Higher(loc.points)[1],
                                    Higher(loc.points)[2] + AIL_SLIT \div 10,
                                    Higher(loc.points)[3])
            /\ loc.pointB = Point3D(Lower(loc.points)[1],
                                    Lower(loc.points)[2] - AIL_SLIT \div 2,
                                    Lower(loc.points)[3])
            /\ loc.pointA[2] > loc.pointB[2])
    /\ [](loc.line_ail # NoRef =>
            /\ IsLine(loc.line_ail)
            /\ loc.line_ail.sk = loc.sketch_xy
            /\ CurveAt(loc.line_ail).pts = <<loc.pointA, loc.pointB>>)
    /\ [](loc.line_ail2 # NoRef =>
            /\ loc.pointC = Point3D(loc.pointB[1] + AIL_SLIT, loc.pointB[2], loc.pointB[3])
            /\ IsLine(loc.line_ail2)
            /\ loc.line_ail2.sk = loc.sketch_xy
            /\ CurveAt(loc.line_ail2).pts = <<loc.pointB, loc.pointC>>)
    /\ [](loc.line_ail3 # NoRef =>
            /\ IsLine(loc.line_ail3)
            /\ loc.line_ail3.sk = loc.sketch_xy
            /\ CurveAt(loc.line_ail3).pts = <<loc.pointC, loc.pointA>>
            /\ Cardinality({loc.pointA, loc.pointB, loc.pointC}) = 3
            /\ \A p \in {loc.pointA, loc.pointB, loc.pointC} : SlitVisits(p) = 2
            /\ Cardinality({SlitRefs[i] : i \in 1..3}) = 3
            /\ loc.pointA[2] > loc.pointB[2]
            /\ loc.pointB[2] = loc.pointC[2])

\* run has returned with the triangle drawn, from points the kernel returned
\* with the smaller y first, so that run exchanged them.
C12_Witness ==
    /\ Succeeded
    /\ loc.line_ail3 # NoRef
    /\ loc.points[1][2] < loc.points[2][2]
    /\ loc.pointA[2] = loc.points[2][2] + AIL_SLIT \div 10

\* The same, from points the kernel returned with the larger y first.
C12_WitnessInOrder ==
    /\ Succeeded
    /\ loc.line_ail3 # NoRef
    /\ loc.points[1][2] > loc.points[2][2]
    /\ loc.pointA[2] = loc.points[1][2] + AIL_SLIT \div 10

====
